---- MODULE Spec2Model ----
(***************************************************************************)
(* A model of the Telegram channel scraper (src/src/scraper.py) and of its *)
(* entry points (src/scripts/run_scraper.py, scraper.main).                *)
(*                                                                         *)
(* Strings are sequences of one-character strings, so that lower(),        *)
(* replace(), strip() and the substring test are computed as Python        *)
(* computes them.  An optional value is <<>> (None) or <<v>>.              *)
(***************************************************************************)
EXTENDS Integers, Sequences, FiniteSets, TLC

(***************************************************************************)
(* Bounds of the model.                                                    *)
(***************************************************************************)
\* The value of the MAX_IMAGES environment variable (the default quota).
EnvMaxImages == 2
\* The value of the MAX_IMAGES_lobelia4cosmetics environment variable.
EnvMaxImagesLobelia == 1
\* The value of the MAX_IMAGES_CheMed123 environment variable.
EnvMaxImagesCheMed == 3
\* Processes (scraper sessions) started one after the other.
MaxSessions == 2
\* The last calendar day the clock reaches.
MaxDay == 2
\* Provider faults (flood-wait signals, other errors) raised in one session.
MaxFaults == 1
\* Longest batch handed to save_messages_to_json directly.
MaxBatch == 2
\* Engine instances create_engine returns in one behaviour.
MaxEngines == 4
\* Ticks (distinct times of day) in one calendar day.
TicksPerDay == 3

(***************************************************************************)
(* Strings.                                                                *)
(***************************************************************************)
UpperChars == <<"A","B","C","D","E","F","G","H","I","J","K","L","M",
                "N","O","P","Q","R","S","T","U","V","W","X","Y","Z">>

LowerChars == <<"a","b","c","d","e","f","g","h","i","j","k","l","m",
                "n","o","p","q","r","s","t","u","v","w","x","y","z">>

DigitChars == <<"0","1","2","3","4","5","6","7","8","9">>

Range(s) == {s[i] : i \in DOMAIN s}

UpperSet == Range(UpperChars)

AlnumSet == Range(UpperChars) \cup Range(LowerChars) \cup Range(DigitChars)

\* str.lower() on one character.
LowerChar(c) ==
    IF c \in UpperSet
    THEN LowerChars[CHOOSE i \in DOMAIN UpperChars : UpperChars[i] = c]
    ELSE c

\* str.lower()
Lower(s) == [i \in DOMAIN s |-> LowerChar(s[i])]

\* str.isalnum() on one character.
IsAlnum(c) == c \in AlnumSet

\* s.replace(c, '')
RemoveChar(s, c) == SelectSeq(s, LAMBDA x : x # c)

\* s.replace(c, d) for single characters
ReplaceChar(s, c, d) == [i \in DOMAIN s |-> IF s[i] = c THEN d ELSE s[i]]

\* pattern in s
Contains(s, pattern) ==
    \E i \in 0..(Len(s) - Len(pattern)) :
        \A j \in 1..Len(pattern) : s[i + j] = pattern[j]

\* s.strip() (the only whitespace of the model's alphabet is the space)
RECURSIVE LStrip(_)
LStrip(s) == IF s # <<>> /\ Head(s) = " " THEN LStrip(Tail(s)) ELSE s

RECURSIVE RStrip(_)
RStrip(s) ==
    IF s # <<>> /\ s[Len(s)] = " " THEN RStrip(SubSeq(s, 1, Len(s) - 1)) ELSE s

Strip(s) == LStrip(RStrip(s))

(***************************************************************************)
(* Channel Limit Registry.                                                 *)
(***************************************************************************)
CheMed123 == <<"C","h","e","M","e","d","1","2","3">>

lobelia4cosmetics ==
    <<"l","o","b","e","l","i","a","4","c","o","s","m","e","t","i","c","s">>

tikvahpharma == <<"t","i","k","v","a","h","p","h","a","r","m","a">>

\* The known channels, in the order of the list (and of the dict built from it).
channel_names == <<CheMed123, lobelia4cosmetics, tikvahpharma>>

DEFAULT_MAX_IMAGES == EnvMaxImages

\* os.getenv('MAX_IMAGES_<channel>'): not set for tikvahpharma.
EnvLimit(channel) ==
    IF channel = lobelia4cosmetics THEN <<EnvMaxImagesLobelia>>
    ELSE IF channel = CheMed123 THEN <<EnvMaxImagesCheMed>>
    ELSE <<>>

\* _load_channel_limits: every known channel gets its own limit or the default.
channel_max_images ==
    [c \in Range(channel_names) |->
        IF EnvLimit(c) # <<>> THEN EnvLimit(c)[1] ELSE DEFAULT_MAX_IMAGES]

\* channel_mappings, in insertion order: <<pattern, config_name>>
channel_mappings ==
    << << <<"l","o","b","e","l","i","a">>, lobelia4cosmetics >>,
       << <<"c","h","e","m","e","d">>, CheMed123 >>,
       << <<"t","i","k","v","a","h">>, tikvahpharma >> >>

normalized_name(channel_name) ==
    RemoveChar(RemoveChar(RemoveChar(Lower(channel_name), " "), "_"), "-")

\* The first index (in iteration order) of a set of indexes, as <<i>>, or <<>>.
FirstIndex(S) ==
    IF S = {} THEN <<>> ELSE <<CHOOSE i \in S : \A j \in S : i <= j>>

\* key.lower() of every key of channel_max_images
lower_keys == [i \in DOMAIN channel_names |-> Lower(channel_names[i])]

\* The keys of channel_max_images that equal the name when both are lowercased.
CaseInsensitiveKeys(channel_name) ==
    {i \in DOMAIN channel_names : lower_keys[i] = Lower(channel_name)}

\* The patterns of channel_mappings found in the normalized name.
MatchingPatterns(channel_name) ==
    {i \in DOMAIN channel_mappings :
        Contains(normalized_name(channel_name), channel_mappings[i][1])}

\* A lookup that knows the exact keys only.
get_max_images_exact_only(channel_name) ==
    IF channel_name \in DOMAIN channel_max_images
    THEN channel_max_images[channel_name] ELSE DEFAULT_MAX_IMAGES

get_max_images_for_channel(channel_name) ==
    LET ci == FirstIndex(CaseInsensitiveKeys(channel_name))
        pi == FirstIndex({i \in MatchingPatterns(channel_name) :
                             channel_mappings[i][2] \in DOMAIN channel_max_images})
    IN  IF channel_name \in DOMAIN channel_max_images
        THEN channel_max_images[channel_name]
        ELSE IF ci # <<>> THEN channel_max_images[channel_names[ci[1]]]
        ELSE IF pi # <<>> THEN channel_max_images[channel_mappings[pi[1]][2]]
        ELSE DEFAULT_MAX_IMAGES

\* A lookup that takes every name as its own key.
get_config_channel_name_raw(channel_name) == channel_name

get_config_channel_name(channel_name) ==
    LET ci == FirstIndex(CaseInsensitiveKeys(channel_name))
        pi == FirstIndex(MatchingPatterns(channel_name))
    IN  IF channel_name \in DOMAIN channel_max_images THEN channel_name
        ELSE IF ci # <<>> THEN channel_names[ci[1]]
        ELSE IF pi # <<>> THEN channel_mappings[pi[1]][2]
        ELSE channel_name

(***************************************************************************)
(* Time.  A timestamp is a number of ticks; a calendar date is a day       *)
(* number.  strftime("%Y-%m-%d") keeps the day of a timestamp, strptime    *)
(* gives the first tick (midnight) of a day.                               *)
(***************************************************************************)
StrfTimeDay(t) == t \div TicksPerDay

StrpTimeDay(d) == d * TicksPerDay

\* datetime.isoformat() and datetime.fromisoformat(): the text form of a timestamp.
isoformat(t) == [iso |-> t]

fromisoformat(s) == s.iso

(***************************************************************************)
(* Message Extractor.  A provider message is                               *)
(*   [id, date (<<>> or <<t>>), text, media ("none", "photo", "other"),    *)
(*    views, forwards (<<>> or <<n>>), is_reply, reply_to_msg_id].         *)
(***************************************************************************)
\* f"data/raw/images/{channel_name}/{message_id}.jpg"
image_file(channel_name, message_id) == <<channel_name, message_id>>

\* x or default, for an optional value
OrElse(opt, default) == IF opt = <<>> THEN default ELSE opt[1]

\* An extractor that leaves the reply field out of the record.
extract_message_data_no_reply(message, channel_name, now) ==
    [message_id      |-> message.id,
     channel_name    |-> channel_name,
     message_date    |-> IF message.date # <<>>
                         THEN <<isoformat(message.date[1])>> ELSE <<>>,
     message_text    |-> OrElse(message.text, <<>>),
     has_media       |-> message.media # "none",
     image_path      |-> IF message.media = "photo"
                         THEN <<image_file(channel_name, message.id)>> ELSE <<>>,
     views           |-> OrElse(message.views, 0),
     forwards        |-> OrElse(message.forwards, 0),
     is_reply        |-> message.is_reply,
     scraped_at      |-> isoformat(now)]

extract_message_data(message, channel_name, now) ==
    [message_id      |-> message.id,
     channel_name    |-> channel_name,
     message_date    |-> IF message.date # <<>>
                         THEN <<isoformat(message.date[1])>> ELSE <<>>,
     message_text    |-> OrElse(message.text, <<>>),
     has_media       |-> message.media # "none",
     image_path      |-> IF message.media = "photo"
                         THEN <<image_file(channel_name, message.id)>> ELSE <<>>,
     views           |-> OrElse(message.views, 0),
     forwards        |-> OrElse(message.forwards, 0),
     is_reply        |-> message.is_reply,
     reply_to_msg_id |-> IF message.is_reply THEN message.reply_to_msg_id ELSE <<>>,
     scraped_at      |-> isoformat(now)]

(***************************************************************************)
(* Partitioned Persistence Writer.  The partition files are a function     *)
(* from the paths that exist, <<date_str, safe_channel_name>>, to          *)
(* [ok, data]: ok is FALSE for a file json.load cannot decode.             *)
(***************************************************************************)
safe_channel_name(channel_name) ==
    ReplaceChar(
        Strip(SelectSeq(channel_name,
                        LAMBDA c : IsAlnum(c) \/ c \in {" ", "-", "_"})),
        " ", "_")

output_file(channel_name, date) ==
    <<StrfTimeDay(date), safe_channel_name(channel_name)>>

existing_data(fs, path) ==
    IF path \in DOMAIN fs /\ fs[path].ok THEN fs[path].data ELSE <<>>

existing_ids(fs, path) ==
    {existing_data(fs, path)[i].message_id : i \in DOMAIN existing_data(fs, path)}

\* A merge that appends the whole batch.
new_messages_unfiltered(fs, path, msgs) == msgs

\* new_messages = [msg for msg in messages if msg.get('message_id') not in existing_ids]
new_messages(fs, path, msgs) ==
    SelectSeq(msgs, LAMBDA msg : msg.message_id \notin existing_ids(fs, path))

\* A merge that replaces a stored record by the batch's record of the same
\* message_id.
all_messages_upsert(fs, path, msgs) ==
    [i \in DOMAIN existing_data(fs, path) |->
        IF \E j \in DOMAIN msgs :
              msgs[j].message_id = existing_data(fs, path)[i].message_id
        THEN msgs[CHOOSE j \in DOMAIN msgs :
                     msgs[j].message_id = existing_data(fs, path)[i].message_id]
        ELSE existing_data(fs, path)[i]]
    \o new_messages(fs, path, msgs)

all_messages(fs, path, msgs) == existing_data(fs, path) \o new_messages(fs, path, msgs)

\* A save that gives up when the existing file cannot be decoded.
save_messages_to_json_gives_up(fs, msgs, channel_name, date) ==
    LET path == output_file(channel_name, date)
    IN  IF msgs = <<>> THEN fs
        ELSE IF path \in DOMAIN fs /\ ~fs[path].ok THEN fs
        ELSE [p \in DOMAIN fs \cup {path} |->
                 IF p = path
                 THEN [ok |-> TRUE, data |-> all_messages(fs, path, msgs)]
                 ELSE fs[p]]

\* The partition files after save_messages_to_json(msgs, channel_name, date),
\* date a timestamp (the caller's date, or now when the caller gave None).
save_messages_to_json(fs, msgs, channel_name, date) ==
    LET path == output_file(channel_name, date)
    IN  IF msgs = <<>> THEN fs
        ELSE [p \in DOMAIN fs \cup {path} |->
                 IF p = path
                 THEN [ok |-> TRUE, data |-> all_messages(fs, path, msgs)]
                 ELSE fs[p]]

\* scraped_dates after the same call
save_scraped_dates(dates, msgs, date) ==
    IF msgs = <<>> THEN dates ELSE dates \cup {StrfTimeDay(date)}

(***************************************************************************)
(* Media Downloader.  The image files on disk are a set of                 *)
(* image_file(channel_name, message_id); counts is downloaded_images_count *)
(* (a function on the keys it holds), reached is channel_limit_reached.    *)
(* provider is what client.download_media does if it is called: "ok",      *)
(* "flood" (FloodWaitError) or "error" (any other exception).              *)
(***************************************************************************)
\* len(list(image_dir.glob("*.jpg"))) for image_dir of this channel name
existing_count(imgs, channel_name) ==
    Cardinality({f \in imgs : f[1] = channel_name})

\* downloaded_images_count with the key set to n
SetCount(counts, key, n) ==
    [k \in DOMAIN counts \cup {key} |-> IF k = key THEN n ELSE counts[k]]

\* A quota test that lets one image more through.
quota_reached_late(counts, config_channel, max_images) ==
    counts[config_channel] > max_images

\* A download_image that fetches whatever the counter says.
quota_reached_never(counts, config_channel, max_images) == FALSE

\* if self.downloaded_images_count[config_channel] >= max_images
quota_reached(counts, config_channel, max_images) ==
    counts[config_channel] >= max_images

\* A download_image that fetches the media again when the file exists.
download_image_refetch(message, channel_name, imgs, counts, reached, provider) ==
    LET config_channel == get_config_channel_name(channel_name)
        max_images == get_max_images_for_channel(channel_name)
        counts0 == IF config_channel \in DOMAIN counts THEN counts
                   ELSE SetCount(counts, config_channel, 0)
        image_path == image_file(channel_name, message.id)
        same == [images |-> imgs, counts |-> counts0, reached |-> reached,
                 ret |-> FALSE, fetched |-> FALSE, exc |-> "none", warned |-> FALSE]
    IN  IF message.media # "photo" THEN [same EXCEPT !.counts = counts]
        ELSE IF quota_reached(counts0, config_channel, max_images)
        THEN [same EXCEPT !.reached = reached \cup {config_channel},
                          !.warned = config_channel \notin reached]
        ELSE IF provider = "ok"
        THEN [same EXCEPT !.images = imgs \cup {image_path},
                          !.counts = SetCount(counts0, config_channel,
                                              counts0[config_channel] + 1),
                          !.ret = TRUE, !.fetched = TRUE]
        ELSE [same EXCEPT !.fetched = TRUE, !.exc = provider]

\* A download_image that counts the image before the media is fetched.
download_image_counts_first(message, channel_name, imgs, counts, reached, provider) ==
    LET config_channel == get_config_channel_name(channel_name)
        max_images == get_max_images_for_channel(channel_name)
        counts0 == IF config_channel \in DOMAIN counts THEN counts
                   ELSE SetCount(counts, config_channel, 0)
        image_path == image_file(channel_name, message.id)
        same == [images |-> imgs, counts |-> counts0, reached |-> reached,
                 ret |-> FALSE, fetched |-> FALSE, exc |-> "none", warned |-> FALSE]
        counted == SetCount(counts0, config_channel, counts0[config_channel] + 1)
    IN  IF message.media # "photo" THEN [same EXCEPT !.counts = counts]
        ELSE IF quota_reached(counts0, config_channel, max_images)
        THEN [same EXCEPT !.reached = reached \cup {config_channel},
                          !.warned = config_channel \notin reached]
        ELSE IF image_path \in imgs THEN [same EXCEPT !.ret = TRUE]
        ELSE IF provider = "ok"
        THEN [same EXCEPT !.images = imgs \cup {image_path},
                          !.counts = counted,
                          !.ret = TRUE, !.fetched = TRUE]
        ELSE [same EXCEPT !.counts = counted, !.fetched = TRUE, !.exc = provider]

\* download_image(message, channel_name, message_id): the state after the
\* call, the value returned (ret), whether download_media was called (fetched),
\* the exception it raised (exc, "none" if none) and whether the limit
\* warning was logged (warned).
download_image(message, channel_name, imgs, counts, reached, provider) ==
    LET config_channel == get_config_channel_name(channel_name)
        max_images == get_max_images_for_channel(channel_name)
        counts0 == IF config_channel \in DOMAIN counts THEN counts
                   ELSE SetCount(counts, config_channel, 0)
        image_path == image_file(channel_name, message.id)
        same == [images |-> imgs, counts |-> counts0, reached |-> reached,
                 ret |-> FALSE, fetched |-> FALSE, exc |-> "none", warned |-> FALSE]
    IN  IF message.media # "photo" THEN [same EXCEPT !.counts = counts]
        ELSE IF quota_reached(counts0, config_channel, max_images)
        THEN [same EXCEPT !.reached = reached \cup {config_channel},
                          !.warned = config_channel \notin reached]
        ELSE IF image_path \in imgs THEN [same EXCEPT !.ret = TRUE]
        ELSE IF provider = "ok"
        THEN [same EXCEPT !.images = imgs \cup {image_path},
                          !.counts = SetCount(counts0, config_channel,
                                              counts0[config_channel] + 1),
                          !.ret = TRUE, !.fetched = TRUE]
        ELSE [same EXCEPT !.fetched = TRUE, !.exc = provider]

(***************************************************************************)
(* Channel Iterator: the counter seeding of scrape_channel.                *)
(***************************************************************************)
\* A seeding that warns whenever it finds the counter at the limit.
seed_counter_warns_again(channel_name, imgs, counts, reached) ==
    LET config_channel == get_config_channel_name(channel_name)
        max_images == get_max_images_for_channel(channel_name)
        n == existing_count(imgs, channel_name)
    IN  IF config_channel \notin DOMAIN counts
        THEN [counts |-> SetCount(counts, config_channel, n),
              reached |-> IF n >= max_images
                          THEN reached \cup {config_channel} ELSE reached,
              warned |-> n >= max_images]
        ELSE IF counts[config_channel] >= max_images
        THEN [counts |-> counts, reached |-> reached \cup {config_channel},
              warned |-> TRUE]
        ELSE [counts |-> counts, reached |-> reached, warned |-> FALSE]

\* A seeding that counts the files again at every scrape of the channel.
seed_counter_reseeds(channel_name, imgs, counts, reached) ==
    LET config_channel == get_config_channel_name(channel_name)
        max_images == get_max_images_for_channel(channel_name)
        n == existing_count(imgs, channel_name)
    IN  [counts |-> SetCount(counts, config_channel, n),
         reached |-> IF n >= max_images
                     THEN reached \cup {config_channel} ELSE reached,
         warned |-> n >= max_images /\ config_channel \notin reached]

\* Lines 291-326: the counter, the limit set and whether a warning was logged.
seed_counter(channel_name, imgs, counts, reached) ==
    LET config_channel == get_config_channel_name(channel_name)
        max_images == get_max_images_for_channel(channel_name)
        n == existing_count(imgs, channel_name)
    IN  IF config_channel \notin DOMAIN counts
        THEN [counts |-> SetCount(counts, config_channel, n),
              reached |-> IF n >= max_images
                          THEN reached \cup {config_channel} ELSE reached,
              warned |-> n >= max_images]
        ELSE IF counts[config_channel] >= max_images
                /\ config_channel \notin reached
        THEN [counts |-> counts, reached |-> reached \cup {config_channel},
              warned |-> TRUE]
        ELSE [counts |-> counts, reached |-> reached, warned |-> FALSE]

(***************************************************************************)
(* scrape_multiple_channels: grouping by date and flushing.                *)
(***************************************************************************)
\* A grouping by the time of the scrape.
date_key_scraped(msg, t) == StrfTimeDay(t)

\* date_key of a record: the day of its message_date, or of now
date_key(msg, t) ==
    StrfTimeDay(IF msg.message_date # <<>>
                THEN fromisoformat(msg.message_date[1]) ELSE t)

\* The keys of messages_by_date in insertion order.
RECURSIVE date_keys(_, _)
date_keys(msgs, t) ==
    IF msgs = <<>> THEN <<>>
    ELSE LET front == date_keys(SubSeq(msgs, 1, Len(msgs) - 1), t)
             k == date_key(msgs[Len(msgs)], t)
         IN  IF k \in Range(front) THEN front ELSE Append(front, k)

\* messages_by_date[k]
date_messages(msgs, k, t) == SelectSeq(msgs, LAMBDA msg : date_key(msg, t) = k)

\* The partition files after saving the groups of keys, in order.
RECURSIVE save_groups(_, _, _, _, _)
save_groups(fs, keys, msgs, channel_name, t) ==
    IF keys = <<>> THEN fs
    ELSE save_groups(
             save_messages_to_json(fs, date_messages(msgs, Head(keys), t),
                                   channel_name, StrpTimeDay(Head(keys))),
             Tail(keys), msgs, channel_name, t)

(***************************************************************************)
(* The provider's channels.                                                *)
(***************************************************************************)
Msg(id, date, media, views) ==
    [id |-> id, date |-> date, text |-> <<>>, media |-> media, views |-> views,
     forwards |-> <<>>, is_reply |-> FALSE, reply_to_msg_id |-> <<>>]

medshop == <<"m","e","d","s","h","o","p">>

\* channel_usernames, the argument of scrape_multiple_channels
channel_usernames == <<lobelia4cosmetics, medshop>>

TitleLobelia == <<"L","o","b","e","l","i","a">>

TitleLobelia2 == <<"L","o","b","e","l","i","a","-","2">>

TitleMed == <<"M","e","d">>

TitleLobeliaB == <<"l","o","b","e","l","i","a"," ","B">>

\* The titles a channel's owner gives it, the first one first.
Titles(username) ==
    IF username = lobelia4cosmetics THEN <<TitleLobelia, TitleLobelia2>>
    ELSE <<TitleMed, TitleLobeliaB>>

\* The message history of a channel, in the provider's order.  Message 3 of
\* the first channel has no date.
History(username) ==
    IF username = lobelia4cosmetics
    THEN <<Msg(1, <<StrpTimeDay(1)>>, "photo", <<5>>),
           Msg(2, <<StrpTimeDay(2) + 1>>, "photo", <<>>),
           Msg(3, <<>>, "none", <<>>)>>
    ELSE <<Msg(1, <<StrpTimeDay(1) + 1>>, "photo", <<>>),
           Msg(2, <<StrpTimeDay(1)>>, "other", <<>>)>>

(***************************************************************************)
(* State.                                                                  *)
(***************************************************************************)
VARIABLES
    images,         \* the image files on disk
    files,          \* the partition files on disk
    title,          \* the provider: the current title of each channel
    now,            \* the clock, a timestamp
    session,        \* the processes started so far
    pc,             \* where the running process is
    client,         \* the provider connection: "none", "connected", "disconnected"
    downloaded_images_count,
    channel_limit_reached,
    scraped_channels,
    scraped_dates,
    idx,            \* scrape_multiple_channels: the position in channel_usernames
    resolved,       \* scrape_channel: <<>>, or <<channel_name>>, the title resolved
    cursor,         \* scrape_channel: the messages iter_messages has yielded
    messages,       \* scrape_channel: the records collected
    faults,         \* the provider and file system faults of this session
    error_log,      \* the logger.error lines of the current channel: [site, kind]
    warnings,       \* the limit warnings of this session, per key
    last_dl,        \* <<>>, or the last download_image call:
                    \* <<[channel_name, message_id, count, max_images, first,
                    \*    existing, ret, fetched, exc]>>
    dl_called,      \* the channel names download_image was called with
    seed_count,     \* per key, the value downloaded_images_count got when the
                    \* key was first encountered in this session
    last_save,      \* the last direct save_messages_to_json call, <<>> or
                    \* <<[messages, channel_name, path, before]>>
    entry,          \* what started the running process: "none", "run_scraper",
                    \* "main", or "library" (a caller of scrape_multiple_channels)
    exit_status,    \* <<>>, or how the last process ended:
                    \* <<[entry, fatal, code]>>
    _engine,        \* database.py: the module's engine, 0 (None) or an instance
    created,        \* the engine instances create_engine has returned so far
    tested,         \* the instances whose SELECT 1 succeeded
    db_up,          \* whether the database answers
    last_get        \* <<>>, or the last get_db_engine call since the last
                    \* close_connection: <<[raised, engine, last_returned]>>,
                    \* engine 0 if it raised, last_returned the instance the
                    \* latest call that returned has returned (0: none yet)

diskVars == <<images, files>>

memVars == <<downloaded_images_count, channel_limit_reached, scraped_channels,
             scraped_dates>>

runVars == <<idx, resolved, cursor, messages>>

logVars == <<faults, error_log, warnings, last_dl, dl_called, seed_count>>

procVars == <<entry, exit_status>>

dbVars == <<_engine, created, tested, db_up, last_get>>

vars == <<images, files, title, now, session, pc, client,
          downloaded_images_count, channel_limit_reached, scraped_channels,
          scraped_dates, idx, resolved, cursor, messages, faults, error_log,
          warnings, last_dl, dl_called, seed_count, last_save, entry, exit_status,
          _engine, created, tested, db_up, last_get>>

Init ==
    /\ images = {}
    /\ files = <<>>
    /\ title = [u \in Range(channel_usernames) |-> Titles(u)[1]]
    /\ now = StrpTimeDay(1)
    /\ session = 0
    /\ pc = "idle"
    /\ client = "none"
    /\ downloaded_images_count = <<>>
    /\ channel_limit_reached = {}
    /\ scraped_channels = {}
    /\ scraped_dates = {}
    /\ idx = 1
    /\ resolved = <<>>
    /\ cursor = 0
    /\ messages = <<>>
    /\ faults = 0
    /\ error_log = {}
    /\ warnings = <<>>
    /\ last_dl = <<>>
    /\ dl_called = {}
    /\ seed_count = <<>>
    /\ last_save = <<>>
    /\ entry = "none"
    /\ exit_status = <<>>
    /\ _engine = 0
    /\ created = 0
    /\ tested = {}
    /\ db_up = TRUE
    /\ last_get = <<>>

(***************************************************************************)
(* The process: run_scraper / main construct a scraper, connect, call      *)
(* scrape_multiple_channels and close.  A step runs the code from one      *)
(* suspension point (an await) to the next.                                *)
(*   pc = "idle"     no process is running                                 *)
(*   pc = "loop"     at the head of the for loop (awaiting get_entity)     *)
(*   pc = "iter"     in the async for (awaiting the next message)          *)
(*   pc = "flush"    scrape_channel has returned                           *)
(*   pc = "sleep"    in asyncio.sleep(2) between two channels              *)
(*   pc = "finally"  scrape_multiple_channels has returned                 *)
(***************************************************************************)
Username == channel_usernames[idx]

\* seed_count after a step that leaves the counter as counts: a key that has
\* no seed yet gets the value the step assigned at the key's first encounter,
\* seeded[k] (line 308, the files counted), or 0 (line 471) if seeded is <<>>.
FirstCount(sc, counts, seeded) ==
    [k \in DOMAIN counts |->
        IF k \in DOMAIN sc THEN sc[k]
        ELSE IF k \in DOMAIN seeded THEN seeded[k] ELSE 0]

AddWarning(w, key) ==
    [k \in DOMAIN w \cup {key} |-> IF k \in DOMAIN w THEN w[k] + 1 ELSE 1]

Logged(site, kind) == error_log \cup {[site |-> site, kind |-> kind]}

\* TelegramScraper.__init__ and a connect() that succeeds.
StartSession ==
    /\ pc = "idle"
    /\ session < MaxSessions
    /\ now' = now + 1
    /\ session' = session + 1
    /\ client' = "connected"
    /\ pc' = "loop"
    /\ downloaded_images_count' = <<>>
    /\ channel_limit_reached' = {}
    /\ scraped_channels' = {}
    /\ scraped_dates' = {}
    /\ idx' = 1
    /\ resolved' = <<>>
    /\ cursor' = 0
    /\ messages' = <<>>
    /\ faults' = 0
    /\ error_log' = {}
    /\ warnings' = <<>>
    /\ last_dl' = <<>>
    /\ dl_called' = {}
    /\ seed_count' = <<>>
    /\ entry' = "run_scraper"
    /\ exit_status' = <<>>
    /\ UNCHANGED <<images, files, title, last_save, dbVars>>

\* Between two runs the owner of a channel changes its title.
Retitle(username) ==
    /\ pc = "idle"
    /\ session > 0
    /\ session < MaxSessions
    /\ title[username] = Titles(username)[1]
    /\ title' = [title EXCEPT ![username] = Titles(username)[2]]
    /\ UNCHANGED <<images, files, now, session, pc, client, memVars, runVars,
                   logVars, last_save, procVars, dbVars>>

\* Between two runs the clock reaches the next day.
NextDay ==
    /\ pc = "idle"
    /\ session > 0
    /\ session < MaxSessions
    /\ StrfTimeDay(now) < MaxDay
    /\ now' = StrpTimeDay(StrfTimeDay(now) + 1)
    /\ UNCHANGED <<images, files, title, session, pc, client, memVars, runVars,
                   logVars, last_save, procVars, dbVars>>

\* scrape_channel, lines 269-329: get_entity returns the entity.
ResolveFound ==
    /\ pc = "loop"
    /\ idx <= Len(channel_usernames)
    /\ client = "connected"
    /\ LET name == title[Username]
           sd == seed_counter(name, images, downloaded_images_count,
                              channel_limit_reached)
       IN  /\ resolved' = <<name>>
           /\ downloaded_images_count' = sd.counts
           /\ seed_count' = FirstCount(seed_count, sd.counts, sd.counts)
           /\ channel_limit_reached' = sd.reached
           /\ warnings' = IF sd.warned
                          THEN AddWarning(warnings, get_config_channel_name(name))
                          ELSE warnings
    /\ cursor' = 0
    /\ messages' = <<>>
    /\ error_log' = {}
    /\ last_dl' = <<>>
    /\ pc' = "iter"
    /\ UNCHANGED <<images, files, title, now, session, client, scraped_channels,
                   scraped_dates, idx, faults, dl_called, last_save, procVars, dbVars>>

\* get_entity raises UsernameNotOccupiedError or ChannelPrivateError: return [].
ResolveMissing(kind) ==
    /\ pc = "loop"
    /\ idx <= Len(channel_usernames)
    /\ client = "connected"
    /\ error_log' = {[site |-> "get_entity", kind |-> kind]}
    /\ resolved' = <<>>
    /\ cursor' = 0
    /\ messages' = <<>>
    /\ last_dl' = <<>>
    /\ pc' = "flush"
    /\ UNCHANGED <<images, files, title, now, session, client, memVars, idx,
                   faults, warnings, dl_called, seed_count, last_save, procVars, dbVars>>

\* get_entity raises anything else: the handler of line 394, return messages.
ResolveRaises(kind) ==
    /\ pc = "loop"
    /\ idx <= Len(channel_usernames)
    /\ client = "connected"
    /\ faults < MaxFaults
    /\ faults' = faults + 1
    /\ error_log' = {[site |-> "get_entity", kind |-> kind]}
    /\ resolved' = <<>>
    /\ cursor' = 0
    /\ messages' = <<>>
    /\ last_dl' = <<>>
    /\ pc' = "flush"
    /\ UNCHANGED <<images, files, title, now, session, client, memVars, idx,
                   warnings, dl_called, seed_count, last_save, procVars, dbVars>>

\* A loop body that saves every record as soon as it is extracted.
files_saved_per_message(fs, message_data, t) ==
    save_messages_to_json(fs, <<message_data>>, message_data.channel_name,
                          StrpTimeDay(date_key(message_data, t)))

\* Lines 336-380: the body of the async for appends the record to the local
\* list and writes no partition file.
files_after_message(fs, message_data, t) == fs

\* Lines 331-371: iter_messages yields the next message; it is extracted,
\* appended and, if it has an image path, download_image is called.
Yield(provider) ==
    /\ pc = "iter"
    /\ cursor < Len(History(Username))
    /\ LET message == History(Username)[cursor + 1]
           name == resolved[1]
           message_data == extract_message_data(message, name, now)
           wanted == message_data.has_media /\ message_data.image_path # <<>>
           dl == download_image(message, name, images, downloaded_images_count,
                                channel_limit_reached, provider)
       IN  /\ messages' = Append(messages, message_data)
           /\ files' = files_after_message(files, message_data, now)
           /\ cursor' = cursor + 1
           /\ IF wanted
              THEN /\ provider # "ok" => (dl.fetched /\ faults < MaxFaults)
                   /\ images' = dl.images
                   /\ downloaded_images_count' = dl.counts
                   /\ channel_limit_reached' = dl.reached
                   /\ warnings' = IF dl.warned
                                  THEN AddWarning(warnings,
                                                  get_config_channel_name(name))
                                  ELSE warnings
                   /\ faults' = IF dl.exc # "none" THEN faults + 1 ELSE faults
                   /\ error_log' = IF dl.exc # "none"
                                   THEN Logged("download_media", dl.exc)
                                   ELSE error_log
                   /\ dl_called' = dl_called \cup {name}
                   /\ seed_count' = FirstCount(seed_count, dl.counts, <<>>)
                   /\ last_dl' =
                        <<[channel_name |-> name, message_id |-> message.id,
                           count |-> IF get_config_channel_name(name)
                                        \in DOMAIN downloaded_images_count
                                     THEN <<downloaded_images_count[
                                               get_config_channel_name(name)]>>
                                     ELSE <<>>,
                           max_images |-> get_max_images_for_channel(name),
                           first |-> name \notin dl_called,
                           existing |-> existing_count(images, name),
                           ret |-> dl.ret, fetched |-> dl.fetched,
                           exc |-> dl.exc]>>
              ELSE /\ provider = "ok"
                   /\ last_dl' = <<>>
                   /\ UNCHANGED <<images, downloaded_images_count,
                                  channel_limit_reached, warnings, faults,
                                  error_log, dl_called, seed_count>>
    /\ UNCHANGED <<title, now, session, pc, client, scraped_channels,
                   scraped_dates, idx, resolved, last_save, procVars, dbVars>>

\* An end of iteration that marks only the channels whose quota was not
\* reached.
IterEnd_unless_limited ==
    /\ pc = "iter"
    /\ cursor = Len(History(Username))
    /\ scraped_channels' =
          IF get_config_channel_name(resolved[1]) \in channel_limit_reached
          THEN scraped_channels
          ELSE scraped_channels \cup {resolved[1]}
    /\ pc' = "flush"
    /\ UNCHANGED <<images, files, title, now, session, client,
                   downloaded_images_count, channel_limit_reached, scraped_dates,
                   runVars, logVars, last_save, procVars, dbVars>>

\* Lines 382-397: the iteration ends; the channel is marked scraped.
IterEnd ==
    /\ pc = "iter"
    /\ cursor = Len(History(Username))
    /\ scraped_channels' = scraped_channels \cup {resolved[1]}
    /\ pc' = "flush"
    /\ UNCHANGED <<images, files, title, now, session, client,
                   downloaded_images_count, channel_limit_reached, scraped_dates,
                   runVars, logVars, last_save, procVars, dbVars>>

\* The fetch of the next page raises (FloodWaitError or another exception):
\* the async for is left through the handler of line 394.
IterRaises(kind) ==
    /\ pc = "iter"
    /\ faults < MaxFaults
    /\ faults' = faults + 1
    /\ error_log' = Logged("iter_messages", kind)
    /\ pc' = "flush"
    /\ UNCHANGED <<images, files, title, now, session, client, memVars, runVars,
                   warnings, last_dl, dl_called, seed_count, last_save, procVars, dbVars>>

\* scrape_multiple_channels, lines 590-605: every date group is saved.
Flush ==
    /\ pc = "flush"
    /\ LET keys == date_keys(messages, now)
       IN  /\ files' = IF messages = <<>> THEN files
                       ELSE save_groups(files, keys, messages,
                                        messages[1].channel_name, now)
           /\ scraped_dates' = scraped_dates \cup Range(keys)
    /\ pc' = "sleep"
    /\ UNCHANGED <<images, title, now, session, client, downloaded_images_count,
                   channel_limit_reached, scraped_channels, runVars, logVars,
                   last_save, procVars, dbVars>>

\* A handler that lets the exception end the loop.
on_channel_error_abort == "finally"

\* Lines 610-612: except Exception: log, continue (with the next channel).
on_channel_error == "loop"

\* The save of group number k raises (the directory or the file cannot be
\* written): the groups before it are saved, the handler of line 610 goes on
\* to the next channel.
FlushRaises(k) ==
    /\ pc = "flush"
    /\ faults < MaxFaults
    /\ LET keys == date_keys(messages, now)
           saved == SubSeq(keys, 1, k - 1)
       IN  /\ k \in DOMAIN keys
           /\ files' = save_groups(files, saved, messages,
                                   messages[1].channel_name, now)
           /\ scraped_dates' = scraped_dates \cup Range(saved)
    /\ faults' = faults + 1
    /\ error_log' = Logged("save", "error")
    /\ idx' = IF on_channel_error = "loop" THEN idx + 1 ELSE idx
    /\ pc' = on_channel_error
    /\ resolved' = <<>>
    /\ cursor' = 0
    /\ messages' = <<>>
    /\ last_dl' = <<>>
    /\ UNCHANGED <<images, title, now, session, client, downloaded_images_count,
                   channel_limit_reached, scraped_channels, warnings, dl_called, seed_count,
                   last_save, procVars, dbVars>>

\* Line 608: asyncio.sleep(2) returns, the loop goes on; the locals of the
\* iteration that ends are dead.
Sleep2 ==
    /\ pc = "sleep"
    /\ idx' = idx + 1
    /\ pc' = "loop"
    /\ resolved' = <<>>
    /\ cursor' = 0
    /\ messages' = <<>>
    /\ error_log' = {}
    /\ last_dl' = <<>>
    /\ UNCHANGED <<images, files, title, now, session, client, memVars, faults,
                   warnings, dl_called, seed_count, last_save, procVars, dbVars>>

\* The for loop is over: scrape_multiple_channels returns, the summary is printed.
Finish ==
    /\ pc = "loop"
    /\ idx > Len(channel_usernames)
    /\ pc' = "finally"
    /\ UNCHANGED <<images, files, title, now, session, client, memVars, runVars,
                   logVars, last_save, procVars, dbVars>>

\* run_scraper.py: sys.exit(1) on missing credentials and on a failed
\* connect(); otherwise the script ends normally.
run_scraper_exit(fatal) == IF fatal THEN 1 ELSE 0

\* scraper.py main(): both fatal failures log an error and return, and
\* asyncio.run(main()) ends normally.
main_exit(fatal) == 0

\* The exit code of the process of an entry point.
exit_code(e, fatal) ==
    IF e = "run_scraper" THEN run_scraper_exit(fatal) ELSE main_exit(fatal)

\* A close() that leaves the connection open.
close_forgets(c) == c

\* close(): if self.client: await self.client.disconnect()
close(c) == IF c # "none" THEN "disconnected" ELSE c

\* The finally block of run_scraper / main; then the process ends, and its
\* memory with it.
Close ==
    /\ pc \in {"finally", "interrupted"}
    /\ client' = close(client)
    /\ pc' = "idle"
    /\ downloaded_images_count' = <<>>
    /\ channel_limit_reached' = {}
    /\ scraped_channels' = {}
    /\ scraped_dates' = {}
    /\ idx' = 1
    /\ resolved' = <<>>
    /\ cursor' = 0
    /\ messages' = <<>>
    /\ faults' = 0
    /\ error_log' = {}
    /\ warnings' = <<>>
    /\ last_dl' = <<>>
    /\ dl_called' = {}
    /\ seed_count' = <<>>
    /\ entry' = "none"
    /\ \E code \in (IF pc = "interrupted" THEN {0, 130}
                     ELSE {exit_code(entry, client # "connected")}) :
          exit_status' = IF entry = "library" THEN <<>>
                         ELSE <<[entry |-> entry, fatal |-> client # "connected",
                                 code |-> code]>>
    /\ UNCHANGED <<images, files, title, now, session, last_save, dbVars>>

Next ==
    \/ StartSession
    \/ \E u \in Range(channel_usernames) : Retitle(u)
    \/ NextDay
    \/ ResolveFound
    \/ \E kind \in {"not_found", "private"} : ResolveMissing(kind)
    \/ \E kind \in {"flood", "error"} : ResolveRaises(kind)
    \/ \E provider \in {"ok", "flood", "error"} : Yield(provider)
    \/ IterEnd
    \/ \E kind \in {"flood", "error"} : IterRaises(kind)
    \/ Flush
    \/ \E k \in 1..MaxDay : FlushRaises(k)
    \/ Sleep2
    \/ Finish
    \/ Close

Spec == Init /\ [][Next]_vars

(***************************************************************************)
(* The same process with an external interrupt (SIGINT, a cancellation) at *)
(* a suspension point: get_entity, the fetch of the next message (with the *)
(* download and the pacing delay of the message before it), the delay      *)
(* between two channels.  The exception is no Exception, so no handler of  *)
(* the scraper catches it; it reaches the finally block of the entry point.*)
(***************************************************************************)
Suspended ==
    \/ pc = "loop" /\ idx <= Len(channel_usernames)
    \/ pc = "iter"
    \/ pc = "sleep"

Interrupt ==
    /\ Suspended
    /\ pc' = "interrupted"
    /\ UNCHANGED <<images, files, title, now, session, client, memVars, runVars,
                   logVars, last_save, procVars, dbVars>>

NextInt == Next \/ Interrupt

\* The event loop runs the finally block of the entry point to its end.
SpecInt == Init /\ [][NextInt]_vars /\ WF_vars(Close)

(***************************************************************************)
(* Every way a run starts: both entry points, with credentials or without, *)
(* with a connect() that succeeds or fails, and scrape_multiple_channels   *)
(* called by other code on a scraper of its own.                           *)
(***************************************************************************)
\* connect(): self.client after the call.  "no_client": TelegramClient(...)
\* raises, self.client keeps its value None; "start_fails": the client object
\* is assigned and client.start() raises.
connect(outcome) ==
    IF outcome = "ok" THEN "connected"
    ELSE IF outcome = "start_fails" THEN "unstarted" ELSE "none"

ConnectFailures == {"no_client", "start_fails"}

\* An entry point that goes on to scrape whatever connect() returned.
after_connect_ignored(connected) == "loop"

\* if not await scraper.connect(): sys.exit(1) / return, inside the try
after_connect(connected) == IF connected THEN "loop" ELSE "finally"

\* TelegramScraper.__init__: the memory of a new scraper.
FreshScraper ==
    /\ downloaded_images_count' = <<>>
    /\ channel_limit_reached' = {}
    /\ scraped_channels' = {}
    /\ scraped_dates' = {}
    /\ idx' = 1
    /\ resolved' = <<>>
    /\ cursor' = 0
    /\ messages' = <<>>
    /\ faults' = 0
    /\ error_log' = {}
    /\ warnings' = <<>>
    /\ last_dl' = <<>>
    /\ dl_called' = {}
    /\ seed_count' = <<>>

\* An entry point is started with credentials; connect() does what outcome says.
StartEntry(e, outcome) ==
    /\ pc = "idle"
    /\ session < MaxSessions
    /\ ~(e = "run_scraper" /\ outcome = "ok")
    /\ now' = now + 1
    /\ session' = session + 1
    /\ client' = connect(outcome)
    /\ pc' = after_connect(outcome = "ok")
    /\ FreshScraper
    /\ entry' = e
    /\ exit_status' = <<>>
    /\ UNCHANGED <<images, files, title, last_save, dbVars>>

\* An entry point is started without TELEGRAM_API_ID or TELEGRAM_API_HASH: it
\* ends before a scraper is constructed.
StartNoCredentials(e) ==
    /\ pc = "idle"
    /\ session < MaxSessions
    /\ now' = now + 1
    /\ session' = session + 1
    /\ client' = "none"
    /\ exit_status' = <<[entry |-> e, fatal |-> TRUE, code |-> exit_code(e, TRUE)]>>
    /\ UNCHANGED <<images, files, title, pc, memVars, runVars, logVars, last_save,
                   entry, dbVars>>

\* Other code constructs a scraper, calls connect() (first) or does not, and
\* then scrape_multiple_channels, which calls connect() (second) if
\* self.client is None and goes on to the loop whatever connect() returned.
StartLibrary(first, second) ==
    /\ pc = "idle"
    /\ session < MaxSessions
    /\ now' = now + 1
    /\ session' = session + 1
    /\ client' = IF first # "not_called" /\ connect(first) # "none"
                 THEN connect(first) ELSE connect(second)
    /\ pc' = "loop"
    /\ FreshScraper
    /\ entry' = "library"
    /\ exit_status' = <<>>
    /\ UNCHANGED <<images, files, title, last_save, dbVars>>

\* scrape_channel on a scraper that is not connected: without a client object
\* it returns [] at once (lines 269-271); with a client that never started,
\* get_entity raises and the handler of line 394 returns the empty list.
ResolveUnconnected ==
    /\ pc = "loop"
    /\ idx <= Len(channel_usernames)
    /\ client # "connected"
    /\ error_log' = {[site |-> IF client = "none" THEN "client" ELSE "get_entity",
                      kind |-> "not_connected"]}
    /\ resolved' = <<>>
    /\ cursor' = 0
    /\ messages' = <<>>
    /\ last_dl' = <<>>
    /\ pc' = "flush"
    /\ UNCHANGED <<images, files, title, now, session, client, memVars, idx,
                   faults, warnings, dl_called, seed_count, last_save, procVars, dbVars>>

NextEntry ==
    \/ Next
    \/ \E e \in {"run_scraper", "main"}, outcome \in {"ok"} \cup ConnectFailures :
          StartEntry(e, outcome)
    \/ \E e \in {"run_scraper", "main"} : StartNoCredentials(e)
    \/ \E first \in {"not_called"} \cup ConnectFailures, second \in ConnectFailures :
          StartLibrary(first, second)
    \/ ResolveUnconnected

SpecEntry == Init /\ [][NextEntry]_vars

(***************************************************************************)
(* src/src/database.py: the module's engine.  An engine instance is a      *)
(* positive number, None is 0.                                             *)
(***************************************************************************)
scraperVars == <<images, files, title, now, session, pc, client, memVars,
                 runVars, logVars, last_save, procVars>>

LastReturned == IF last_get = <<>> THEN 0 ELSE last_get[1].last_returned

\* get_db_engine().  create_ok: create_engine returns an engine (it raises
\* otherwise); the test query succeeds if the database answers.
GetDbEngine(create_ok) ==
    /\ IF _engine # 0
       THEN /\ last_get' = <<[raised |-> FALSE, engine |-> _engine,
                              last_returned |-> _engine]>>
            /\ UNCHANGED <<_engine, created, tested>>
       ELSE IF ~create_ok
       THEN /\ last_get' = <<[raised |-> TRUE, engine |-> 0,
                              last_returned |-> LastReturned]>>
            /\ UNCHANGED <<_engine, created, tested>>
       ELSE /\ created < MaxEngines
            /\ created' = created + 1
            /\ _engine' = created + 1
            /\ IF db_up
               THEN /\ tested' = tested \cup {created + 1}
                    /\ last_get' = <<[raised |-> FALSE, engine |-> created + 1,
                                      last_returned |-> created + 1]>>
               ELSE /\ tested' = tested
                    /\ last_get' = <<[raised |-> TRUE, engine |-> 0,
                                      last_returned |-> LastReturned]>>
    /\ UNCHANGED <<db_up, scraperVars>>

\* A close_connection that disposes the pool and keeps the engine.
close_connection_keeps(e) == e

\* close_connection(): _engine afterwards (dispose(), and in the finally
\* block _engine = None, whether dispose() raised or not)
close_connection(e) == 0

CloseConnection ==
    /\ _engine' = close_connection(_engine)
    /\ last_get' = <<>>
    /\ UNCHANGED <<created, tested, db_up, scraperVars>>

\* The database stops answering, or answers again.
DbToggle ==
    /\ db_up' = ~db_up
    /\ UNCHANGED <<_engine, created, tested, last_get, scraperVars>>

NextDb ==
    \/ \E create_ok \in BOOLEAN : GetDbEngine(create_ok)
    \/ CloseConnection
    \/ DbToggle

SpecDb == Init /\ [][NextDb]_vars

(***************************************************************************)
(* download_image called directly on a new scraper, under any name.        *)
(***************************************************************************)
chemed123 == Lower(CheMed123)

ChEmEd123 == <<"C","h","E","m","E","d","1","2","3">>

\* A display name that holds a pattern only once it is normalized.
NameLo_be_lia == <<"L","o","-","b","e","_","l","i","a"," ","X">>

TestChan == <<"T","e","s","t","C","h","a","n">>

CallNames == {CheMed123, chemed123, ChEmEd123, NameLo_be_lia, TestChan}

\* The messages the calls are made with: a photo and a text message.
CallMessages == {Msg(1, <<>>, "photo", <<>>), Msg(3, <<>>, "none", <<>>)}

DownloadCall(message, channel_name, provider) ==
    LET dl == download_image(message, channel_name, images,
                             downloaded_images_count, channel_limit_reached,
                             provider)
        config_channel == get_config_channel_name(channel_name)
    IN  /\ provider # "ok" => dl.fetched
        /\ images' = dl.images
        /\ downloaded_images_count' = dl.counts
        /\ channel_limit_reached' = dl.reached
        /\ dl_called' = dl_called \cup {channel_name}
        /\ seed_count' = FirstCount(seed_count, dl.counts, <<>>)
        /\ last_dl' =
             <<[channel_name |-> channel_name, message_id |-> message.id,
                count |-> IF config_channel \in DOMAIN downloaded_images_count
                          THEN <<downloaded_images_count[config_channel]>>
                          ELSE <<>>,
                max_images |-> get_max_images_for_channel(channel_name),
                first |-> channel_name \notin dl_called,
                existing |-> existing_count(images, channel_name),
                ret |-> dl.ret, fetched |-> dl.fetched, exc |-> dl.exc]>>
        /\ UNCHANGED <<files, title, now, session, pc, client, scraped_channels,
                       scraped_dates, runVars, faults, error_log, warnings,
                       last_save, procVars, dbVars>>

NextDownload ==
    \E message \in CallMessages, c \in CallNames, provider \in {"ok", "error"} :
        DownloadCall(message, c, provider)

SpecDownload == Init /\ [][NextDownload]_vars

(***************************************************************************)
(* save_messages_to_json called directly, on any batch.                    *)
(***************************************************************************)
\* Two channel names with one sanitized file name.
NameA_B == <<"A"," ","B">>

NameAuB == <<"A","_","B">>

SaveChannels == {NameA_B, NameAuB}

\* The provider messages the batches are drawn from: message 1 as first
\* scraped, message 1 scraped again with more views, message 2.
SaveMessages ==
    {Msg(1, <<StrpTimeDay(1)>>, "none", <<>>),
     Msg(1, <<StrpTimeDay(1)>>, "none", <<7>>),
     Msg(2, <<StrpTimeDay(1)>>, "photo", <<>>)}

\* The date argument: None, or a date.
SaveDates == {<<>>, <<StrpTimeDay(1)>>}

BatchesOf(S) == UNION {[1..n -> S] : n \in 0..MaxBatch}

SaveCall(batch, channel_name, date_arg) ==
    LET msgs == [i \in DOMAIN batch |->
                    extract_message_data(batch[i], channel_name, now)]
        \* if date is None: date = datetime.now()
        date == IF date_arg = <<>> THEN now ELSE date_arg[1]
        path == output_file(channel_name, date)
    IN  /\ files' = save_messages_to_json(files, msgs, channel_name, date)
        /\ scraped_dates' = save_scraped_dates(scraped_dates, msgs, date)
        /\ last_save' = <<[messages |-> msgs, channel_name |-> channel_name,
                           path |-> path, before |-> existing_data(files, path),
                           decode |-> IF path \notin DOMAIN files THEN "missing"
                                      ELSE IF files[path].ok THEN "ok"
                                      ELSE "failed"]>>
        /\ UNCHANGED <<images, title, now, session, pc, client,
                       downloaded_images_count, channel_limit_reached,
                       scraped_channels, runVars, logVars, procVars, dbVars>>

NextSave ==
    \E batch \in BatchesOf(SaveMessages), c \in SaveChannels, d \in SaveDates :
        SaveCall(batch, c, d)

SpecSave == Init /\ [][NextSave]_vars

(***************************************************************************)
(* save_messages_to_json over partition files that something else (a       *)
(* killed writer, a full disk) may have left without valid JSON content.   *)
(***************************************************************************)
\* The content of a partition file stops being valid JSON: json.load on it
\* raises json.JSONDecodeError.
CorruptFile(path) ==
    /\ path \in DOMAIN files
    /\ files[path].ok
    /\ files' = [files EXCEPT ![path] = [ok |-> FALSE, data |-> <<>>]]
    /\ last_save' = <<>>
    /\ UNCHANGED <<images, title, now, session, pc, client, memVars, runVars,
                   logVars, procVars, dbVars>>

NextSaveCorrupt ==
    \/ NextSave
    \/ \E path \in DOMAIN files : CorruptFile(path)

SpecSaveCorrupt == Init /\ [][NextSaveCorrupt]_vars

\* The number of records of data with this message_id.
CountId(data, id) == Cardinality({i \in DOMAIN data : data[i].message_id = id})

Ids(data) == {data[i].message_id : i \in DOMAIN data}

\* No message_id occurs twice in the batch.
DistinctIds(data) == \A i, j \in DOMAIN data : data[i].message_id = data[j].message_id => i = j

\* Every record of data is a record of the sequence all.
RecordsKept(data, all) == \A i \in DOMAIN data : \E j \in DOMAIN all : all[j] = data[i]

(***************************************************************************)
(* C1: a second save_messages_to_json call with the same batch, the same   *)
(* channel name and the same partition date changes no partition file, and *)
(* a message of the batch that was stored at most once before the first of *)
(* the two calls (the batch itself naming it once) is in the file exactly  *)
(* once after the second.                                                  *)
(***************************************************************************)
C1_SecondFlushChangesNothing ==
    [][(/\ last_save # <<>>
        /\ last_save' # <<>>
        /\ last_save'[1].messages = last_save[1].messages
        /\ last_save'[1].channel_name = last_save[1].channel_name
        /\ last_save'[1].path = last_save[1].path)
       => /\ files' = files
          /\ \A i \in DOMAIN last_save[1].messages :
                (/\ DistinctIds(last_save[1].messages)
                 /\ CountId(last_save[1].before,
                            last_save[1].messages[i].message_id) <= 1)
                => CountId(existing_data(files', last_save[1].path),
                           last_save[1].messages[i].message_id) = 1]_vars

\* A flush of a batch has just found all its records stored by an earlier flush.
C1_Witness ==
    /\ last_save # <<>>
    /\ last_save[1].messages # <<>>
    /\ RecordsKept(last_save[1].messages, last_save[1].before)
    /\ existing_data(files, last_save[1].path) = last_save[1].before

(***************************************************************************)
(* C2: after a save_messages_to_json write the partition file holds every  *)
(* record stored before, every message of the batch, and no message_id     *)
(* twice.                                                                  *)
(***************************************************************************)
C2_FileIsDeduplicatedUnion ==
    (last_save # <<>> /\ last_save[1].messages # <<>>)
    => LET data == existing_data(files, last_save[1].path)
       IN  /\ RecordsKept(last_save[1].before, data)
           /\ Ids(last_save[1].messages) \subseteq Ids(data)
           /\ DistinctIds(data)

(***************************************************************************)
(* Observations on the persisted output and on the running channel.        *)
(***************************************************************************)
\* The (path, position) pairs of all records in all partition files.
Stored ==
    UNION {{<<p, i>> : i \in DOMAIN existing_data(files, p)} : p \in DOMAIN files}

RecordAt(s) == existing_data(files, s[1])[s[2]]

\* The image files stored for the canonical key of the image file f.
StoredForKeyOf(f) ==
    {g \in images : get_config_channel_name(g[1]) = get_config_channel_name(f[1])}

\* download_image reached the file check or the fetch: the quota let it pass.
Allowed(dl) == dl.ret \/ dl.fetched

\* The running channel's key has used up its quota.
QuotaExhausted ==
    /\ resolved # <<>>
    /\ get_config_channel_name(resolved[1]) \in DOMAIN downloaded_images_count
    /\ downloaded_images_count[get_config_channel_name(resolved[1])]
           >= get_max_images_for_channel(resolved[1])

\* The record of the partition files for this record's message and channel.
Persisted(msg) ==
    \E s \in Stored :
        /\ RecordAt(s).message_id = msg.message_id
        /\ RecordAt(s).channel_name = msg.channel_name
        /\ RecordAt(s).has_media = msg.has_media
        /\ RecordAt(s).image_path = msg.image_path

\* Only rate-limit signals were logged for the running channel, at these sites.
OnlyFloodAt(sites) ==
    /\ error_log # {}
    /\ \A e \in error_log : e.kind = "flood" /\ e.site \in sites

(***************************************************************************)
(* C3: over any sequence of runs that scrape the same channels again,      *)
(* every (message_id, channel_name) pair is stored at most once, counted   *)
(* over all partition files, messages without a message_date included.     *)
(***************************************************************************)
C3_PairStoredOnce ==
    \A s, t \in Stored :
        (/\ RecordAt(s).message_id = RecordAt(t).message_id
         /\ RecordAt(s).channel_name = RecordAt(t).channel_name)
        => s = t

(***************************************************************************)
(* C4: the first download_image call of a session for a channel finds     *)
(* the channel's counter at N, the number of image files in the            *)
(* channel's directory, and the download is allowed exactly while N is     *)
(* below the quota M.                                                      *)
(***************************************************************************)
C4_FirstCallSeedsFromChannelDirectory ==
    (last_dl # <<>> /\ last_dl[1].first)
    => /\ last_dl[1].count = <<last_dl[1].existing>>
       /\ Allowed(last_dl[1]) <=> (last_dl[1].existing < last_dl[1].max_images)

(***************************************************************************)
(* C5: for every canonical channel key the image files stored under all    *)
(* display names of that key never number more than the key's quota.       *)
(***************************************************************************)
C5_QuotaPerCanonicalKey ==
    \A f \in images :
        Cardinality(StoredForKeyOf(f)) <= get_max_images_for_channel(f[1])

(***************************************************************************)
(* C6: when the only thing that went wrong while a channel was iterated is *)
(* a flood-wait signal (at a page fetch or in the processing of a          *)
(* message), scrape_channel returns every message of the channel exactly   *)
(* once, in the provider's order.                                          *)
(***************************************************************************)
C6_FloodWaitLosesNoMessage ==
    (/\ pc = "flush"
     /\ resolved # <<>>
     /\ OnlyFloodAt({"iter_messages", "download_media"}))
    => /\ Len(messages) = Len(History(Username))
       /\ \A i \in DOMAIN messages : messages[i].message_id = History(Username)[i].id

(***************************************************************************)
(* C7: a rate-limit signal raised by the media download does not leave the *)
(* image unfetched, and one raised by entity resolution does not leave the *)
(* channel unresolved.                                                     *)
(***************************************************************************)
C7_FloodWaitSkipsNothing ==
    /\ (last_dl # <<>> /\ last_dl[1].exc = "flood")
       => image_file(last_dl[1].channel_name, last_dl[1].message_id) \in images
    /\ (pc = "flush" /\ OnlyFloodAt({"get_entity"})) => resolved # <<>>

(***************************************************************************)
(* C8: while the quota of the running channel's key is used up, every      *)
(* photo message yielded so far has its record in the list scrape_channel  *)
(* returns, with has_media true and the image path set; after the flush    *)
(* every such record is in a partition file; and a download_image call     *)
(* that finds the quota used up does not call download_media.              *)
(***************************************************************************)
C8_ExhaustedQuotaKeepsRecords ==
    /\ (pc \in {"iter", "flush", "sleep"} /\ QuotaExhausted)
       => /\ Len(messages) = cursor
          /\ \A i \in 1..cursor :
                History(Username)[i].media = "photo"
                => /\ messages[i].message_id = History(Username)[i].id
                   /\ messages[i].has_media
                   /\ messages[i].image_path
                        = <<image_file(resolved[1], History(Username)[i].id)>>
    /\ (pc = "sleep" /\ QuotaExhausted)
       => \A i \in DOMAIN messages : messages[i].has_media => Persisted(messages[i])
    /\ (last_dl # <<>> /\ last_dl[1].count # <<>>
        /\ last_dl[1].count[1] >= last_dl[1].max_images)
       => /\ ~last_dl[1].fetched
          /\ ~last_dl[1].ret

\* A channel whose quota was used up before the session started has been
\* scraped to its end and flushed: its photo records are stored, no image of
\* this display name was fetched.
C8_Witness ==
    /\ session = 2
    /\ pc = "sleep"
    /\ QuotaExhausted
    /\ cursor = Len(History(Username))
    /\ resolved[1] \in dl_called
    /\ existing_count(images, resolved[1]) = 0
    /\ \E i \in DOMAIN messages :
          /\ messages[i].image_path # <<>>
          /\ Persisted(messages[i])

(***************************************************************************)
(* C9 as stated: a channel that does not exist, is private or whose        *)
(* processing raised an exception yields no result, and the run ends only  *)
(* after every channel of the list.                                        *)
(***************************************************************************)
C9_FailedChannelYieldsNothing ==
    /\ (pc = "flush" /\ \E e \in error_log : e.site \in {"get_entity", "iter_messages"})
       => messages = <<>>
    /\ pc = "finally" => idx > Len(channel_usernames)

(***************************************************************************)
(* C9: a channel that does not exist or is private yields no result and    *)
(* nothing is stored for it; a channel whose iteration raised yields the   *)
(* records collected before the exception, one for each message yielded,   *)
(* and the flush stores them; and in every case the run ends only after    *)
(* every channel of the list has been taken up.                            *)
(***************************************************************************)
C9_FailedChannelDoesNotStopRun ==
    /\ [](/\ (pc = "flush" /\ \E e \in error_log : e.site = "get_entity")
             => messages = <<>>
          /\ (pc = "flush" /\ \E e \in error_log : e.site = "iter_messages")
             => /\ Len(messages) = cursor
                /\ \A i \in 1..cursor :
                      messages[i].message_id = History(Username)[i].id
          /\ pc = "finally" => idx > Len(channel_usernames))
    /\ [][(pc = "flush" /\ messages = <<>>) => files' = files]_vars
    /\ [][(pc = "flush" /\ pc' = "sleep")
          => \A i \in DOMAIN messages : Persisted(messages[i])']_vars

\* The first channel of the list was not scraped to its end in this session,
\* the second one has been scraped and flushed.
C9_Witness ==
    /\ pc = "sleep"
    /\ idx = 2
    /\ title[channel_usernames[1]] \notin scraped_channels
    /\ resolved # <<>>
    /\ resolved[1] \in scraped_channels
    /\ messages # <<>>
    /\ \A i \in DOMAIN messages : Persisted(messages[i])

(***************************************************************************)
(* C10: an interrupt at a suspension point of a connected run leads to the *)
(* shutdown path and to a disconnected provider connection, and neither    *)
(* the interrupt nor the shutdown changes a partition file.                *)
(***************************************************************************)
C10_InterruptLeadsToDisconnect ==
    /\ (pc = "interrupted") ~> (pc = "idle" /\ client = "disconnected")
    /\ [][pc = "interrupted" => (pc' = "idle" /\ client' = "disconnected")]_vars
    /\ [][(pc = "interrupted" \/ pc' = "interrupted") => files' = files]_vars

\* A run is interrupted in the middle of a channel, after a flush.
C10_Witness ==
    /\ pc = "interrupted"
    /\ client = "connected"
    /\ files # <<>>
    /\ messages # <<>>

(***************************************************************************)
(* C11: without credentials or without a provider connection nothing is    *)
(* scraped: an entry point whose connect() failed never enters the channel *)
(* loop, and no step of a process that is not connected (an entry point's, *)
(* or scrape_multiple_channels called on a scraper whose connect() failed) *)
(* resolves or iterates a channel or writes a partition file or an image.  *)
(***************************************************************************)
C11_NoConnectionNoScrape ==
    /\ []((entry \in {"run_scraper", "main"} /\ pc \in {"loop", "iter", "flush", "sleep"})
          => client = "connected")
    /\ [][client # "connected"
          => /\ files' = files
             /\ images' = images
             /\ resolved' = <<>>
             /\ cursor' = 0
             /\ messages' = <<>>]_vars

\* scrape_multiple_channels has gone through the whole channel list on a
\* scraper whose client never started.
C11_Witness ==
    /\ entry = "library"
    /\ pc = "finally"
    /\ client = "unstarted"
    /\ idx > Len(channel_usernames)

(***************************************************************************)
(* C12: the exit code of a process of either entry point is non-zero       *)
(* exactly when a fatal failure occurred (no credentials, no connection).  *)
(***************************************************************************)
C12_ExitCodeReflectsFatal ==
    exit_status # <<>> => ((exit_status[1].code # 0) <=> exit_status[1].fatal)

(***************************************************************************)
(* C13: after scrape_multiple_channels has flushed the messages of a       *)
(* channel, every message that has a message_date is stored in the         *)
(* partition file of the calendar date of its message_date and in no other *)
(* partition file, and each date of the batch has its own file.            *)
(***************************************************************************)
OwnPath(msg) ==
    <<StrfTimeDay(fromisoformat(msg.message_date[1])),
      safe_channel_name(msg.channel_name)>>

C13_StoredUnderOwnDateOnly ==
    pc = "sleep"
    => \A i \in DOMAIN messages :
          messages[i].message_date # <<>>
          => /\ OwnPath(messages[i]) \in DOMAIN files
             /\ \A s \in Stored :
                   (/\ RecordAt(s).message_id = messages[i].message_id
                    /\ RecordAt(s).channel_name = messages[i].channel_name)
                   => s[1] = OwnPath(messages[i])
             /\ \E s \in Stored :
                   /\ s[1] = OwnPath(messages[i])
                   /\ RecordAt(s).message_id = messages[i].message_id
                   /\ RecordAt(s).channel_name = messages[i].channel_name

\* A batch with messages of two calendar dates has been flushed, on the
\* first of the two days.
C13_Witness ==
    /\ pc = "sleep"
    /\ StrfTimeDay(now) = 1
    /\ \E i, j \in DOMAIN messages :
          /\ messages[i].message_date # <<>>
          /\ messages[j].message_date # <<>>
          /\ OwnPath(messages[i]) # OwnPath(messages[j])
          /\ OwnPath(messages[i]) \in DOMAIN files
          /\ OwnPath(messages[j]) \in DOMAIN files

(***************************************************************************)
(* C14: download_image returns true exactly when the image file of the     *)
(* message exists after the call, and returns false only when the quota    *)
(* of the channel's key was used up at the call.                           *)
(***************************************************************************)
C14_TrueIffFileExists ==
    last_dl # <<>>
    => /\ last_dl[1].ret
            <=> (image_file(last_dl[1].channel_name, last_dl[1].message_id) \in images)
       /\ ~last_dl[1].ret
            => (last_dl[1].count # <<>> /\ last_dl[1].count[1] >= last_dl[1].max_images)

(***************************************************************************)
(* C15: every casing of the key CheMed123 has CheMed123 as its canonical   *)
(* key, and the download_image calls made under these names share the one  *)
(* counter of that key: no call makes an entry for another casing, and the *)
(* entry counts the images fetched under all of them.                      *)
(***************************************************************************)
CheMedCasings == {CheMed123, chemed123, ChEmEd123}

C15_CasingsShareOneCounter ==
    (last_dl # <<>> /\ last_dl[1].channel_name \in CheMedCasings)
    => /\ DOMAIN downloaded_images_count \cap CheMedCasings \subseteq {CheMed123}
       /\ last_dl[1].message_id = 1 => CheMed123 \in DOMAIN downloaded_images_count
       /\ CheMed123 \in DOMAIN downloaded_images_count
            => downloaded_images_count[CheMed123]
                 = Cardinality({f \in images : f[1] \in CheMedCasings})
       /\ last_dl[1].count # <<>>
            => last_dl[1].count[1]
                 = Cardinality({f \in images : f[1] \in CheMedCasings})
                     - (IF last_dl[1].fetched /\ last_dl[1].ret THEN 1 ELSE 0)

\* Images were fetched under two casings and the third casing has just found
\* the shared counter at 2.
C15_Witness ==
    /\ last_dl # <<>>
    /\ last_dl[1].channel_name = ChEmEd123
    /\ last_dl[1].count = <<2>>
    /\ last_dl[1].fetched
    /\ \E f, g \in images : f[1] = CheMed123 /\ g[1] = chemed123
    /\ downloaded_images_count[CheMed123] = 3

(***************************************************************************)
(* C16: get_max_images_for_channel gives a name that is a key the quota of *)
(* that key, a name that is a key in another casing the quota of that key, *)
(* a name whose normalized form holds a known pattern the quota of the     *)
(* pattern's key, and any other name the default quota.                    *)
(***************************************************************************)
C16_FirstMatchingRule ==
    last_dl # <<>>
    => LET n == last_dl[1].channel_name
           q == last_dl[1].max_images
       IN  /\ n = CheMed123 => q = EnvMaxImagesCheMed
           /\ n \in {chemed123, ChEmEd123} => q = EnvMaxImagesCheMed
           /\ n = NameLo_be_lia => q = EnvMaxImagesLobelia
           /\ n = TestChan => q = EnvMaxImages

\* The quota of a name that is a key in another casing has been looked up.
C16_Witness ==
    /\ last_dl # <<>>
    /\ last_dl[1].channel_name = chemed123
    /\ last_dl[1].max_images = EnvMaxImagesCheMed
    /\ EnvMaxImagesCheMed # DEFAULT_MAX_IMAGES

(***************************************************************************)
(* C17: a channel with quota Q and no image file on disk, scraped to its   *)
(* end without a fault, n messages of which k carry a photo: n records are *)
(* stored for the channel, min(k, Q) image files are in its directory and  *)
(* the counter of its key is min(k, Q).                                    *)
(***************************************************************************)
Min(a, b) == IF a <= b THEN a ELSE b

PhotoCount(history) == Cardinality({i \in DOMAIN history : history[i].media = "photo"})

C18_FieldNamesOfDataModel ==
    \A s \in Stored :
        DOMAIN RecordAt(s) =
            {"message_id", "channel_name", "message_date", "message_text",
             "has_media", "image_path", "views", "forwards", "is_reply",
             "reply_to_message_id", "scraped_at"}

(***************************************************************************)
(* C18: every record of a partition file has exactly the fields            *)
(* message_id, channel_name, message_date, message_text, has_media,        *)
(* image_path, views, forwards, is_reply, reply_to_msg_id, scraped_at.     *)
(***************************************************************************)
C18_FieldNamesWritten ==
    \A s \in Stored :
        DOMAIN RecordAt(s) =
            {"message_id", "channel_name", "message_date", "message_text",
             "has_media", "image_path", "views", "forwards", "is_reply",
             "reply_to_msg_id", "scraped_at"}

\* Records of two channels have been written.
C18_Witness ==
    \E s, t \in Stored : RecordAt(s).channel_name # RecordAt(t).channel_name

(***************************************************************************)
(* C19: a get_db_engine call that returns gives the instance the latest    *)
(* returning call gave, as long as close_connection has not been called    *)
(* since; a call that directly follows close_connection and returns gives  *)
(* an instance this call has created, different from all before.           *)
(***************************************************************************)
C19_SameEngineUntilClose ==
    /\ [][(/\ last_get' # last_get
           /\ last_get' # <<>>
           /\ ~last_get'[1].raised
           /\ LastReturned # 0)
          => last_get'[1].engine = LastReturned]_vars
    /\ [][(/\ last_get = <<>>
           /\ last_get' # <<>>
           /\ ~last_get'[1].raised)
          => /\ created' = created + 1
             /\ last_get'[1].engine = created']_vars

\* The engine was returned, closed, and a second instance has been returned.
C19_Witness ==
    /\ last_get # <<>>
    /\ ~last_get[1].raised
    /\ last_get[1].engine = 2
    /\ tested = {1, 2}

(***************************************************************************)
(* C20: get_db_engine never returns an engine whose connection test did    *)
(* not succeed: while the database cannot be reached, every call raises.   *)
(***************************************************************************)
C20_OnlyTestedEnginesReturned ==
    (last_get # <<>> /\ ~last_get[1].raised) => last_get[1].engine \in tested

(***************************************************************************)
(* C21: when the quota of the channel is not exhausted and the image file  *)
(* of the message already exists, download_image returns true, does not    *)
(* call download_media and leaves downloaded_images_count (and the image   *)
(* directory) unchanged.                                                   *)
(***************************************************************************)
\* The counter value a download_image call found (0 when it had to seed it).
CountBefore(dl) == IF dl.count = <<>> THEN 0 ELSE dl.count[1]

\* The step is a download_image call of scrape_channel.
DownloadStep == cursor' = cursor + 1 /\ last_dl' # <<>>

C21_ExistingFileIsNotFetched ==
    [][(/\ DownloadStep
        /\ image_file(last_dl'[1].channel_name, last_dl'[1].message_id) \in images
        /\ CountBefore(last_dl'[1]) < last_dl'[1].max_images)
       => /\ last_dl'[1].ret
          /\ ~last_dl'[1].fetched
          /\ downloaded_images_count'[
                 get_config_channel_name(last_dl'[1].channel_name)]
               = CountBefore(last_dl'[1])
          /\ downloaded_images_count' = downloaded_images_count
          /\ images' = images]_vars

C21_Witness ==
    /\ last_dl # <<>>
    /\ last_dl[1].ret
    /\ ~last_dl[1].fetched
    /\ last_dl[1].count # <<>>
    /\ last_dl[1].count[1] < last_dl[1].max_images
    /\ last_dl[1].existing > 0
    /\ image_file(last_dl[1].channel_name, last_dl[1].message_id) \in images

(***************************************************************************)
(* C22: when download_media (or the file system) raises during the fetch   *)
(* of a message, download_image returns false and leaves                   *)
(* downloaded_images_count unchanged, the record of the message stays in   *)
(* the result of scrape_channel, and the iteration goes on with the next   *)
(* message.                                                                *)
(***************************************************************************)
C22_FailedFetchKeepsRecordAndGoesOn ==
    [][(DownloadStep /\ last_dl'[1].exc # "none")
       => /\ ~last_dl'[1].ret
          /\ downloaded_images_count' = downloaded_images_count
          /\ Len(messages') = Len(messages) + 1
          /\ SubSeq(messages', 1, Len(messages)) = messages
          /\ messages'[Len(messages')].message_id = last_dl'[1].message_id
          /\ pc' = "iter"
          /\ resolved' = resolved]_vars

C22_Witness ==
    /\ last_dl # <<>>
    /\ last_dl[1].exc = "error"
    /\ ~last_dl[1].ret
    /\ pc = "iter"
    /\ cursor = Len(messages)
    /\ messages[cursor].message_id = last_dl[1].message_id
    /\ cursor < Len(History(Username))

(***************************************************************************)
(* C23: within one scraper session the quota-reached warning is logged at  *)
(* most once for a canonical channel key, however many messages are        *)
(* skipped and however often the key is scraped, and the key enters        *)
(* channel_limit_reached in the step that logs the warning.                *)
(***************************************************************************)
C23_WarnedOncePerKey ==
    /\ \A k \in DOMAIN warnings : warnings[k] = 1
    /\ DOMAIN warnings = channel_limit_reached

\* The second channel of the session runs under a key that was warned about
\* before, and its image has just been skipped.
C23_Witness ==
    /\ pc = "iter"
    /\ idx = 2
    /\ resolved # <<>>
    /\ get_config_channel_name(resolved[1]) = lobelia4cosmetics
    /\ scraped_channels \cap {TitleLobelia, TitleLobelia2} # {}
    /\ lobelia4cosmetics \in DOMAIN warnings
    /\ warnings[lobelia4cosmetics] = 1
    /\ last_dl # <<>>
    /\ last_dl[1].channel_name = resolved[1]
    /\ ~last_dl[1].ret
    /\ ~last_dl[1].fetched

(***************************************************************************)
(* C24: when scrape_channel has returned, the display name of the channel  *)
(* is in scraped_channels exactly when the entity was resolved and the     *)
(* iteration over its messages ran to its end, whether or not the image    *)
(* quota was reached; a channel that was not found, was private, or whose  *)
(* iteration was left through an exception is not in the set.              *)
(***************************************************************************)
\* The iteration of the current channel was left through an exception.
IterationAborted == \E e \in error_log : e.site = "iter_messages"

C24_ScrapedIffIteratedToEnd ==
    pc = "flush" =>
        /\ title[Username] \in scraped_channels
              <=> (resolved # <<>> /\ ~IterationAborted)
        /\ resolved # <<>> => resolved[1] = title[Username]

\* A channel whose quota was reached is marked all the same.
C24_Witness ==
    /\ pc = "flush"
    /\ resolved # <<>>
    /\ resolved[1] \in scraped_channels
    /\ get_config_channel_name(resolved[1]) \in channel_limit_reached
    /\ Len(messages) = Len(History(Username))

AddedRecords(sv) ==
    SelectSeq(sv.messages, LAMBDA msg : msg.message_id \notin Ids(sv.before))

C26_StoredRecordsArePrefix ==
    (/\ last_save # <<>>
     /\ last_save[1].decode = "ok"
     /\ last_save[1].messages # <<>>)
    => LET data == files[last_save[1].path].data
           n == Len(last_save[1].before)
       IN  /\ files[last_save[1].path].ok
           /\ Len(data) >= n
           /\ SubSeq(data, 1, n) = last_save[1].before
           /\ SubSeq(data, n + 1, Len(data)) = AddedRecords(last_save[1])

\* The batch held a stored message with other views, and a new message.
C26_Witness ==
    /\ last_save # <<>>
    /\ last_save[1].decode = "ok"
    /\ last_save[1].before # <<>>
    /\ \E i \in DOMAIN last_save[1].messages, j \in DOMAIN last_save[1].before :
          /\ last_save[1].messages[i].message_id = last_save[1].before[j].message_id
          /\ last_save[1].messages[i].views # last_save[1].before[j].views
    /\ AddedRecords(last_save[1]) # <<>>
    /\ Len(files[last_save[1].path].data) > Len(last_save[1].before)

(***************************************************************************)
(* C27: in one session, for every canonical key with seed count N (the     *)
(* value downloaded_images_count got at the key's first encounter) and     *)
(* quota M, the counter never decreases, grows only by 1 and only in a     *)
(* step whose media fetch succeeded, and never exceeds max(N, M); so at    *)
(* most max(0, M - N) fetches succeed for the key.                         *)
(***************************************************************************)
Max(a, b) == IF a >= b THEN a ELSE b

C27_CounterBound ==
    \A k \in DOMAIN downloaded_images_count :
        /\ k \in DOMAIN seed_count
        /\ seed_count[k] <= downloaded_images_count[k]
        /\ downloaded_images_count[k]
              <= Max(seed_count[k], get_max_images_for_channel(k))
        /\ downloaded_images_count[k] - seed_count[k]
              <= Max(0, get_max_images_for_channel(k) - seed_count[k])

C27_CounterStep ==
    (pc # "idle" /\ pc' # "idle") =>
        \A k \in DOMAIN downloaded_images_count :
            /\ k \in DOMAIN downloaded_images_count'
            /\ downloaded_images_count'[k] >= downloaded_images_count[k]
            /\ downloaded_images_count'[k] <= downloaded_images_count[k] + 1
            /\ downloaded_images_count'[k] # downloaded_images_count[k]
                  => /\ DownloadStep
                     /\ get_config_channel_name(last_dl'[1].channel_name) = k
                     /\ last_dl'[1].fetched
                     /\ last_dl'[1].ret
                     /\ Cardinality(images') = Cardinality(images) + 1

C27_CounterMonotoneAndBounded ==
    []C27_CounterBound /\ [][C27_CounterStep]_vars

\* One key was seeded at its quota and got no fetch, another was seeded with
\* 0 and has just got one.
C27_Witness ==
    /\ lobelia4cosmetics \in DOMAIN downloaded_images_count
    /\ seed_count[lobelia4cosmetics] = get_max_images_for_channel(lobelia4cosmetics)
    /\ downloaded_images_count[lobelia4cosmetics] = seed_count[lobelia4cosmetics]
    /\ lobelia4cosmetics \in channel_limit_reached
    /\ last_dl # <<>>
    /\ last_dl[1].fetched
    /\ last_dl[1].ret
    /\ seed_count[get_config_channel_name(last_dl[1].channel_name)] = 0
    /\ downloaded_images_count[get_config_channel_name(last_dl[1].channel_name)] = 1

(***************************************************************************)
(* C28: while scrape_channel iterates a channel (under one display name,   *)
(* nothing else writing to the image directory), after the seeding and     *)
(* after every download_image call the counter of the channel's canonical  *)
(* key equals the number of image files in the channel's directory.        *)
(***************************************************************************)
C28_CounterEqualsFilesOfChannel ==
    (pc = "iter" /\ resolved # <<>>)
    => /\ get_config_channel_name(resolved[1]) \in DOMAIN downloaded_images_count
       /\ downloaded_images_count[get_config_channel_name(resolved[1])]
            = existing_count(images, resolved[1])

(***************************************************************************)
(* C29: the records of a channel are written to partition files only       *)
(* after scrape_channel has returned for the channel.  No partition file   *)
(* changes while a channel is resolved or iterated, when the run is        *)
(* interrupted, or when the process ends; a record once stored stays       *)
(* stored; every image fetch is for a message whose record is in the       *)
(* result; and once a channel is flushed all records of its result, hence  *)
(* those of its fetched images, are persisted.  So an interrupt in the     *)
(* middle of a channel leaves the persisted records those of the channels  *)
(* completed before it.                                                    *)
(***************************************************************************)
C29_FlushedChannelPersisted ==
    pc = "sleep" => \A i \in DOMAIN messages : Persisted(messages[i])

C29_Step ==
    /\ files' # files => (pc = "flush" /\ pc' # "interrupted")
    /\ \A p \in DOMAIN files :
          /\ p \in DOMAIN files'
          /\ Len(existing_data(files', p)) >= Len(existing_data(files, p))
          /\ SubSeq(existing_data(files', p), 1, Len(existing_data(files, p)))
               = existing_data(files, p)
    /\ (DownloadStep /\ last_dl'[1].fetched)
          => /\ messages'[Len(messages')].message_id = last_dl'[1].message_id
             /\ messages'[Len(messages')].channel_name = last_dl'[1].channel_name
             /\ messages'[Len(messages')].has_media

C29_FilesWrittenOnlyAtFlush ==
    []C29_FlushedChannelPersisted /\ [][C29_Step]_vars

\* The second channel was interrupted after an image of it was fetched: the
\* partition files hold the records of the first channel and none of the
\* second.
C29_Witness ==
    /\ pc = "interrupted"
    /\ idx = 2
    /\ resolved # <<>>
    /\ messages # <<>>
    /\ image_file(resolved[1], messages[1].message_id) \in images
    /\ Stored # {}
    /\ \A s \in Stored : RecordAt(s).channel_name # resolved[1]
    /\ \A i \in DOMAIN messages : ~Persisted(messages[i])

(***************************************************************************)
(* C30: save_messages_to_json never discards a message of the batch whose  *)
(* (message_id, channel_name) pair is not stored yet: after the call every *)
(* message of the batch has a record with its message_id and its           *)
(* channel_name in the partition file, also when another channel name that *)
(* sanitizes to the same file name stored the same message_id before.      *)
(***************************************************************************)
C30_PairOfBatchIsStored ==
    last_save # <<>>
    => \A i \in DOMAIN last_save[1].messages :
          \E j \in DOMAIN existing_data(files, last_save[1].path) :
             /\ existing_data(files, last_save[1].path)[j].message_id
                  = last_save[1].messages[i].message_id
             /\ existing_data(files, last_save[1].path)[j].channel_name
                  = last_save[1].messages[i].channel_name

====
